---- MODULE Spec2Model ----
(***************************************************************************)
(* The storage-manager switch of src/backend/storage/smgr/smgr.c: the      *)
(* backend-local table of SMgrRelation objects, the owner protocol, the    *)
(* per-fork cache of block counts and the end-of-transaction sweep.        *)
(*                                                                         *)
(* An SMgrRelation pointer is the address of an entry of SMgrRelationHash; *)
(* addresses are the numbers 1..NumRels and NULL is 0.  An owner (an       *)
(* SMgrRelation * such as a relcache entry's rd_smgr) is a location        *)
(* 1..NumSlots that holds such a pointer.                                  *)
(*                                                                         *)
(* A BlockNumber is a uint32.  It is held as the signed 32-bit integer     *)
(* with the same bit pattern, so 0xFFFFFFFF is -1 and 0xFFFFFFFE is -2;    *)
(* equality is that of the bit patterns and BlockPlusOne wraps as          *)
(* unsigned arithmetic does.                                               *)
(***************************************************************************)
EXTENDS Integers, Sequences, FiniteSets, TLC

NumRels == 2
NumSlots == 2
MaxBlock == 1
MaxFork == 1
NumCacheSlots == 1
NumClassRels == 1
NumHooks == 2

MAX_FORKNUM == 3
InvalidBlockNumber == -1
MaxBlockNumber == InvalidBlockNumber - 1
NULL == 0

Rels == 1..NumRels
Handles == 1..NumRels
Slots == 1..NumSlots
CacheSlots == 1..NumCacheSlots
ClassRels == 1..NumClassRels
Forks == 0..MAX_FORKNUM
MAIN_FORKNUM == 0

\* relpersistence as smgropen receives it: 0 (unknown), 'p', 'u', 't'
RelPersistence == {0, 112, 117, 116}

\* the block numbers the callers pass: small ones, 0xFFFFFFFE and 0xFFFFFFFF
BlockNumbers == (0..MaxBlock) \cup {MaxBlockNumber, InvalidBlockNumber}

\* the forks the callers pass
InputForks == 0..MaxFork

BlockPlusOne(b) == IF b = 2147483647 THEN (-2147483647) - 1 ELSE b + 1

VARIABLES
    SMgrRelationHash,   \* [created, entry]: the table; entry[h] is the object at address h
    unowned_relns,      \* the dlist of unowned objects, head first
    owners,             \* owners[s]: the SMgrRelation pointer held in location s
    InRecovery,         \* the recovery subsystem's flag
    smgr_hook,          \* NULL or the installed hook
    file_nblocks,       \* file_nblocks[rnode][forknum]: the blocks the storage holds
    last                \* the call made last: its arguments, what it met and what it returned

vars == <<SMgrRelationHash, unowned_relns, owners, InRecovery, smgr_hook, file_nblocks, last>>

\* the dispatch tables a handle can be bound to
smgr_md == "md"
smgr_other == "hooked"

\* an entry of the table that holds no object
FreeEntry ==
    [smgr_rnode |-> NULL, smgr_owner |-> NULL, smgr_targblock |-> InvalidBlockNumber,
     smgr_relpersistence |-> 0,
     smgr_cached_nblocks |-> [f \in Forks |-> InvalidBlockNumber],
     smgr |-> smgr_md]

(***************************************************************************)
(* The registry as one value, so that a routine that calls another (the    *)
(* sweeps call smgrclose) is the composition of the two.  err is set by    *)
(* elog(ERROR): the rest of the routine, and of its callers, is skipped.   *)
(* calls lists the calls made to the collaborators (the dispatch table,    *)
(* bufmgr, inval), each <<routine, rnode, forknum, value>>.                *)
(***************************************************************************)
Mem ==
    [created |-> SMgrRelationHash.created, entry |-> SMgrRelationHash.entry,
     unowned |-> unowned_relns, owners |-> owners, err |-> FALSE, calls |-> <<>>]

Store(m) ==
    /\ SMgrRelationHash' = [created |-> m.created, entry |-> m.entry]
    /\ unowned_relns' = m.unowned
    /\ owners' = m.owners

InUse(m) == {h \in Handles : m.entry[h].smgr_rnode # NULL}

\* hash_search(SMgrRelationHash, &key, HASH_FIND): the entry with that key, or NULL
HashFind(m, rnode) ==
    IF \E h \in Handles : m.entry[h].smgr_rnode = rnode
    THEN CHOOSE h \in Handles : m.entry[h].smgr_rnode = rnode
    ELSE NULL

\* the entry HASH_ENTER hands out for a key that is not in the table
HashAlloc(m) ==
    IF \E h \in Handles : m.entry[h].smgr_rnode = NULL
    THEN CHOOSE h \in Handles :
            /\ m.entry[h].smgr_rnode = NULL
            /\ \A g \in Handles : m.entry[g].smgr_rnode = NULL => h <= g
    ELSE NULL

\* hash_search(..., HASH_REMOVE): frees the entry with that key
HashRemove(m, rnode) ==
    [m EXCEPT !.entry[HashFind(m, rnode)] = FreeEntry]

\* dlist_push_tail(&unowned_relns, &reln->node)
dlist_push_tail(list, reln) == Append(list, reln)

\* dlist_delete(&reln->node).  In every specification below an object without owner is
\* in the list exactly once when this is reached, so the node is a valid one.
dlist_delete(list, reln) == SelectSeq(list, LAMBDA x : x # reln)

\* the hooks a plugin can install
Hooks == 1..NumHooks

\* (*smgr_hook)(backend, rnode): the odd hooks answer with a table of their own, the
\* even ones hand every relation to smgr_standard
HookResult(hook, rnode) == IF hook % 2 = 1 THEN smgr_other ELSE smgr_md

\* smgr(backend, rnode): the hook's table when a hook is installed
smgr(hook, rnode) == IF hook # NULL THEN HookResult(hook, rnode) ELSE smgr_md


(***************************************************************************)
(* The routines, as functions of the registry.                             *)
(***************************************************************************)

\* that branch binding every object to smgr_md, whatever the hook
smgropen_init_md(m, hook, reln, rnode, relpersistence) ==
    [m EXCEPT
        !.entry[reln] =
            [smgr_rnode |-> rnode, smgr_owner |-> NULL,
             smgr_targblock |-> InvalidBlockNumber,
             smgr_relpersistence |-> relpersistence,
             smgr_cached_nblocks |-> [f \in Forks |-> InvalidBlockNumber],
             smgr |-> smgr_md],
        !.calls = Append(@, <<"smgr_open", rnode, 0, 0>>),
        !.unowned = dlist_push_tail(@, reln)]

\* smgropen(), the branch taken when the key was not in the table
smgropen_init(m, hook, reln, rnode, relpersistence) ==
    [m EXCEPT
        !.entry[reln] =
            [smgr_rnode |-> rnode, smgr_owner |-> NULL,
             smgr_targblock |-> InvalidBlockNumber,
             smgr_relpersistence |-> relpersistence,
             smgr_cached_nblocks |-> [f \in Forks |-> InvalidBlockNumber],
             smgr |-> smgr(hook, rnode)],
        !.calls = Append(@, <<"smgr_open", rnode, 0, 0>>),
        !.unowned = dlist_push_tail(@, reln)]

\* smgropen(), that branch storing the caller's relpersistence whenever it is known
smgropen_found_overwrites(m, reln, relpersistence) ==
    IF relpersistence # 0
    THEN [m EXCEPT !.entry[reln].smgr_relpersistence = relpersistence]
    ELSE m

\* smgropen(), the branch taken when the key was in the table
smgropen_found(m, reln, relpersistence) ==
    IF m.entry[reln].smgr_relpersistence = 0
    THEN [m EXCEPT !.entry[reln].smgr_relpersistence = relpersistence]
    ELSE IF ~(relpersistence = 0 \/ m.entry[reln].smgr_relpersistence = relpersistence)
         THEN [m EXCEPT !.err = TRUE]
         ELSE m

\* smgropen() without the test of found: the entry is initialized on every call
smgropen_reinit(m, hook, rnode, relpersistence) ==
    LET m0 == [m EXCEPT !.created = TRUE,
                        !.unowned = IF m.created THEN @ ELSE <<>>]
        hit == HashFind(m0, rnode)
        reln == IF hit = NULL THEN HashAlloc(m0) ELSE hit
    IN  [m |-> smgropen_init(m0, hook, reln, rnode, relpersistence), ret |-> reln]

\* smgropen(): [m, ret].  A new key needs a free entry (the model's table is finite).
smgropen(m, hook, rnode, relpersistence) ==
    LET m0 == [m EXCEPT !.created = TRUE,
                        !.unowned = IF m.created THEN @ ELSE <<>>]
        hit == HashFind(m0, rnode)
        reln == IF hit = NULL THEN HashAlloc(m0) ELSE hit
        m1 == IF hit = NULL
              THEN smgropen_init(m0, hook, reln, rnode, relpersistence)
              ELSE smgropen_found(m0, reln, relpersistence)
    IN  [m |-> m1, ret |-> IF m1.err THEN NULL ELSE reln]

\* what can raise in smgropen() when the key was not in the table: nothing, the hook
\* called by smgr(), or the table's smgr_open
OpenFaults == {"none", "smgr", "smgr_open"}

\* the tables; reln->smgr is one of them, also when it was never assigned
Tables == {smgr_md, smgr_other}

\* smgropen(), the branch taken when the key was not in the table, up to the raise.
\* junk: what reln->smgr holds when smgr() raised before it was assigned
smgropen_init_raising(m, hook, reln, rnode, relpersistence, fault, junk) ==
    IF fault = "none" THEN smgropen_init(m, hook, reln, rnode, relpersistence)
    ELSE LET m1 == [m EXCEPT
                      !.entry[reln] =
                          [smgr_rnode |-> rnode, smgr_owner |-> NULL,
                           smgr_targblock |-> InvalidBlockNumber,
                           smgr_relpersistence |-> relpersistence,
                           smgr_cached_nblocks |-> [f \in Forks |-> InvalidBlockNumber],
                           smgr |-> junk]]
         IN  IF fault = "smgr" THEN [m1 EXCEPT !.err = TRUE]
             ELSE [m1 EXCEPT !.entry[reln].smgr = smgr(hook, rnode),
                             !.calls = Append(@, <<"smgr_open", rnode, 0, 0>>),
                             !.err = TRUE]

\* smgropen() with the raises of its collaborators: [m, ret]
smgropen_raising(m, hook, rnode, relpersistence, fault, junk) ==
    LET m0 == [m EXCEPT !.created = TRUE,
                        !.unowned = IF m.created THEN @ ELSE <<>>]
        hit == HashFind(m0, rnode)
        reln == IF hit = NULL THEN HashAlloc(m0) ELSE hit
        m1 == IF hit = NULL
              THEN smgropen_init_raising(m0, hook, reln, rnode, relpersistence, fault, junk)
              ELSE smgropen_found(m0, reln, relpersistence)
    IN  [m |-> m1, ret |-> IF m1.err THEN NULL ELSE reln]

\* smgrsetowner() without "*(reln->smgr_owner) = NULL"
smgrsetowner_keeps_old(m, owner, reln) ==
    LET m1 == IF m.entry[reln].smgr_owner # NULL
              THEN m
              ELSE [m EXCEPT !.unowned = dlist_delete(@, reln)]
    IN  [m1 EXCEPT !.entry[reln].smgr_owner = owner, !.owners[owner] = reln]

\* smgrsetowner()
smgrsetowner(m, owner, reln) ==
    LET old == m.entry[reln].smgr_owner
        m1 == IF old # NULL
              THEN [m EXCEPT !.owners[old] = NULL]
              ELSE [m EXCEPT !.unowned = dlist_delete(@, reln)]
    IN  [m1 EXCEPT !.entry[reln].smgr_owner = owner, !.owners[owner] = reln]

\* smgrclearowner() without the test of reln->smgr_owner
smgrclearowner_unchecked(m, owner, reln) ==
    [m EXCEPT !.owners[owner] = NULL,
              !.entry[reln].smgr_owner = NULL,
              !.unowned = dlist_push_tail(@, reln)]

\* smgrclearowner() without "*owner = NULL"
smgrclearowner_keeps_ref(m, owner, reln) ==
    IF m.entry[reln].smgr_owner # owner
    THEN m
    ELSE [m EXCEPT !.entry[reln].smgr_owner = NULL,
                   !.unowned = dlist_push_tail(@, reln)]

\* smgrclearowner()
smgrclearowner(m, owner, reln) ==
    IF m.entry[reln].smgr_owner # owner
    THEN m
    ELSE [m EXCEPT !.owners[owner] = NULL,
                   !.entry[reln].smgr_owner = NULL,
                   !.unowned = dlist_push_tail(@, reln)]

\* the loop "for (forknum = 0; forknum <= MAX_FORKNUM; forknum++) smgr_close(reln, forknum)"
CloseForks(m, reln) ==
    [m EXCEPT !.calls = @ \o [i \in 1..(MAX_FORKNUM + 1) |->
                                <<"smgr_close", m.entry[reln].smgr_rnode, i - 1, 0>>]]

\* smgrclose()
smgrclose(m, reln) ==
    IF m.err THEN m ELSE
    LET owner == m.entry[reln].smgr_owner
        m0 == CloseForks(m, reln)
        m1 == IF owner = NULL
              THEN [m0 EXCEPT !.unowned = dlist_delete(@, reln)]
              ELSE m0
    IN  IF HashFind(m1, m1.entry[reln].smgr_rnode) = NULL
        THEN [m1 EXCEPT !.err = TRUE]
        ELSE LET m2 == HashRemove(m1, m1.entry[reln].smgr_rnode)
             IN  IF owner # NULL THEN [m2 EXCEPT !.owners[owner] = NULL] ELSE m2

\* smgrclose() with the raises of its collaborators.  nclosed: the smgr_close calls
\* that return before one raises (MAX_FORKNUM + 1 when none does); present: hash_search
\* found the entry to remove.  A HASH_REMOVE that finds nothing removes nothing.
smgrclose_raising(m, reln, nclosed, present) ==
    IF nclosed > MAX_FORKNUM /\ present THEN smgrclose(m, reln)
    ELSE IF nclosed <= MAX_FORKNUM
    THEN [m EXCEPT !.calls = @ \o [i \in 1..(nclosed + 1) |->
                                     <<"smgr_close", m.entry[reln].smgr_rnode, i - 1, 0>>],
                   !.err = TRUE]
    ELSE LET m0 == CloseForks(m, reln)
         IN  IF m.entry[reln].smgr_owner = NULL
             THEN [m0 EXCEPT !.unowned = dlist_delete(@, reln), !.err = TRUE]
             ELSE [m0 EXCEPT !.err = TRUE]

\* smgrrelease() without "reln->smgr_cached_nblocks[forknum] = InvalidBlockNumber"
smgrrelease_keeps_sizes(m, reln) ==
    IF m.err THEN m ELSE CloseForks(m, reln)

\* smgrrelease()
smgrrelease(m, reln) ==
    IF m.err THEN m ELSE
    [CloseForks(m, reln) EXCEPT
        !.entry[reln].smgr_cached_nblocks = [f \in Forks |-> InvalidBlockNumber]]

\* "while (...) smgrclose(reln)" over the objects of the sequence s
RECURSIVE CloseEach(_, _)
CloseEach(m, s) ==
    IF s = <<>> THEN m ELSE CloseEach(smgrclose(m, Head(s)), Tail(s))

\* "while (...) smgrrelease(reln)" over the objects of the sequence s
RECURSIVE ReleaseEach(_, _)
ReleaseEach(m, s) ==
    IF s = <<>> THEN m ELSE ReleaseEach(smgrrelease(m, Head(s)), Tail(s))

\* hash_seq_search(): the objects of the table, in the order the scan meets them
RECURSIVE SeqOfSet(_)
SeqOfSet(S) ==
    IF S = {} THEN <<>>
    ELSE LET x == CHOOSE y \in S : \A z \in S : y <= z
         IN  <<x>> \o SeqOfSet(S \ {x})

\* smgrreleaseall()
smgrreleaseall(m) ==
    IF ~m.created THEN m ELSE ReleaseEach(m, SeqOfSet(InUse(m)))

\* ProcessBarrierSmgrRelease(): [m, ret]
ProcessBarrierSmgrRelease(m) == [m |-> smgrreleaseall(m), ret |-> 1]

\* smgrcloseall()
smgrcloseall(m) ==
    IF ~m.created THEN m ELSE CloseEach(m, SeqOfSet(InUse(m)))

\* smgrclosenode() as smgrclose(smgropen(rnode))
smgrclosenode_opens(m, rnode) ==
    LET r == smgropen(m, NULL, rnode, 0)
    IN  smgrclose(r.m, r.ret)

\* smgrclosenode()
smgrclosenode(m, rnode) ==
    IF ~m.created THEN m
    ELSE IF HashFind(m, rnode) # NULL THEN smgrclose(m, HashFind(m, rnode)) ELSE m

\* AtEOXact_SMgr() closing every object of the table
AtEOXact_SMgr_all(m) == CloseEach(m, SeqOfSet(InUse(m)))

\* AtEOXact_SMgr(): dlist_foreach_modify reads the successor before the body runs
AtEOXact_SMgr(m) == CloseEach(m, m.unowned)


\* smgrextend() that always adds one to the cached size
smgrextend_trusts(m, reln, forknum, blocknum, ok) ==
    LET m1 == [m EXCEPT !.calls = Append(@, <<"smgr_extend", m.entry[reln].smgr_rnode,
                                              forknum, blocknum>>)]
    IN  IF ~ok THEN [m1 EXCEPT !.err = TRUE]
        ELSE [m1 EXCEPT !.entry[reln].smgr_cached_nblocks[forknum] =
                           BlockPlusOne(blocknum)]

\* smgrextend(); ok: the table's smgr_extend returned rather than raised
smgrextend(m, reln, forknum, blocknum, ok) ==
    LET m1 == [m EXCEPT !.calls = Append(@, <<"smgr_extend", m.entry[reln].smgr_rnode,
                                              forknum, blocknum>>)]
    IN  IF ~ok THEN [m1 EXCEPT !.err = TRUE]
        ELSE IF m1.entry[reln].smgr_cached_nblocks[forknum] = blocknum
             THEN [m1 EXCEPT !.entry[reln].smgr_cached_nblocks[forknum] =
                                BlockPlusOne(blocknum)]
             ELSE [m1 EXCEPT !.entry[reln].smgr_cached_nblocks[forknum] =
                                InvalidBlockNumber]

\* smgrnblocks_cached() without the test of InRecovery
smgrnblocks_cached_always(m, inRecovery, reln, forknum) ==
    m.entry[reln].smgr_cached_nblocks[forknum]

\* smgrnblocks_cached()
smgrnblocks_cached(m, inRecovery, reln, forknum) ==
    IF inRecovery /\ m.entry[reln].smgr_cached_nblocks[forknum] # InvalidBlockNumber
    THEN m.entry[reln].smgr_cached_nblocks[forknum]
    ELSE InvalidBlockNumber

\* smgrnblocks(): [m, ret]; answer is what the table's smgr_nblocks returns if asked
smgrnblocks(m, inRecovery, reln, forknum, answer) ==
    LET result == smgrnblocks_cached(m, inRecovery, reln, forknum)
    IN  IF result # InvalidBlockNumber
        THEN [m |-> m, ret |-> result]
        ELSE [m |-> [m EXCEPT !.calls = Append(@, <<"smgr_nblocks",
                                                  m.entry[reln].smgr_rnode, forknum, answer>>),
                              !.entry[reln].smgr_cached_nblocks[forknum] = answer],
              ret |-> answer]

\* that round without "reln->smgr_cached_nblocks[forknum[i]] = InvalidBlockNumber"
smgrtruncate_fork_keeps(m, reln, forknum, nblocks, ok) ==
    IF m.err THEN m ELSE
    LET m1 == [m EXCEPT !.calls = Append(@, <<"smgr_truncate", m.entry[reln].smgr_rnode,
                                              forknum, nblocks>>)]
    IN  IF ~ok THEN [m1 EXCEPT !.err = TRUE]
        ELSE [m1 EXCEPT !.entry[reln].smgr_cached_nblocks[forknum] = nblocks]

\* smgrtruncate(), one round of its loop; ok: this round's smgr_truncate returned
smgrtruncate_fork(m, reln, forknum, nblocks, ok) ==
    IF m.err THEN m ELSE
    LET m1 == [m EXCEPT !.entry[reln].smgr_cached_nblocks[forknum] = InvalidBlockNumber,
                        !.calls = Append(@, <<"smgr_truncate", m.entry[reln].smgr_rnode,
                                              forknum, nblocks>>)]
    IN  IF ~ok THEN [m1 EXCEPT !.err = TRUE]
        ELSE [m1 EXCEPT !.entry[reln].smgr_cached_nblocks[forknum] = nblocks]

RECURSIVE smgrtruncate_loop(_, _, _, _, _, _)
smgrtruncate_loop(m, reln, forknum, nblocks, nok, i) ==
    IF i > Len(forknum) THEN m
    ELSE smgrtruncate_loop(smgrtruncate_fork(m, reln, forknum[i], nblocks[i], i <= nok),
                           reln, forknum, nblocks, nok, i + 1)

\* smgrtruncate() that sends the invalidation once the forks are truncated
smgrtruncate_inval_last(m, reln, forknum, nblocks, nok) ==
    LET rnode == m.entry[reln].smgr_rnode
        m1 == [m EXCEPT !.calls = Append(@, <<"DropRelFileNodeBuffers", rnode, forknum,
                                              nblocks>>)]
        m2 == smgrtruncate_loop(m1, reln, forknum, nblocks, nok, 1)
    IN  IF m2.err THEN m2
        ELSE [m2 EXCEPT !.calls = Append(@, <<"CacheInvalidateSmgr", rnode, 0, 0>>)]

\* smgrtruncate(); forknum and nblocks are the arrays, nok the number of rounds whose
\* smgr_truncate returns (Len(forknum) when none raises)
smgrtruncate(m, reln, forknum, nblocks, nok) ==
    LET rnode == m.entry[reln].smgr_rnode
        m1 == [m EXCEPT !.calls = @ \o <<<<"DropRelFileNodeBuffers", rnode, forknum,
                                           nblocks>>,
                                         <<"CacheInvalidateSmgr", rnode, 0, 0>>>>]
    IN  smgrtruncate_loop(m1, reln, forknum, nblocks, nok, 1)


(***************************************************************************)
(* The calls.  Each is one atomic step: the backend is single-threaded.    *)
(* A caller passes pointers it got from smgropen and that are still live.  *)
(***************************************************************************)
Call(op) ==
    [op |-> op, rnode |-> NULL, reln |-> NULL, owner |-> NULL, arg |-> 0,
     forknum |-> 0, blocknum |-> 0, forks |-> <<>>, counts |-> <<>>,
     rels |-> <<>>, rnodes |-> <<>>, exists |-> {}, were_cached |-> <<>>,
     ret |-> 0, err |-> FALSE, calls |-> <<>>,
     found |-> FALSE, was_owner |-> NULL, was_held |-> NULL,
     was_cached |-> InvalidBlockNumber, follows |-> FALSE]

\* the registry before the first call
Mem0 ==
    [created |-> FALSE, entry |-> [h \in Handles |-> FreeEntry],
     unowned |-> <<>>, owners |-> [s \in Slots |-> NULL], err |-> FALSE, calls |-> <<>>]

\* the storage before the first call: every fork is an empty file
Files0 == [rnode \in Rels |-> [f \in Forks |-> 0]]

Init ==
    /\ SMgrRelationHash = [created |-> Mem0.created, entry |-> Mem0.entry]
    /\ unowned_relns = Mem0.unowned
    /\ owners = Mem0.owners
    /\ InRecovery = FALSE
    /\ smgr_hook = NULL
    /\ file_nblocks = Files0
    /\ last = Call("none")

Call_smgropen(rnode, relpersistence) ==
    /\ HashFind(Mem, rnode) # NULL \/ HashAlloc(Mem) # NULL
    /\ LET r == smgropen(Mem, smgr_hook, rnode, relpersistence)
       IN  /\ Store(r.m)
           /\ last' = [Call("smgropen") EXCEPT
                         !.rnode = rnode, !.arg = relpersistence, !.ret = r.ret,
                         !.reln = HashFind(Mem, rnode),
                         !.found = HashFind(Mem, rnode) # NULL,
                         !.err = r.m.err, !.calls = r.m.calls]
    /\ UNCHANGED <<InRecovery, smgr_hook, file_nblocks>>

Call_smgrsetowner(owner, reln) ==
    /\ reln \in InUse(Mem)
    /\ LET m == smgrsetowner(Mem, owner, reln)
       IN  /\ Store(m)
           /\ last' = [Call("smgrsetowner") EXCEPT
                         !.owner = owner, !.reln = reln,
                         !.was_owner = Mem.entry[reln].smgr_owner,
                         !.was_held = owners[owner]]
    /\ UNCHANGED <<InRecovery, smgr_hook, file_nblocks>>

Call_smgrclearowner(owner, reln) ==
    /\ reln \in InUse(Mem)
    /\ LET m == smgrclearowner(Mem, owner, reln)
       IN  /\ Store(m)
           /\ last' = [Call("smgrclearowner") EXCEPT
                         !.owner = owner, !.reln = reln,
                         !.was_owner = Mem.entry[reln].smgr_owner,
                         !.was_held = owners[owner],
                         !.follows = /\ last.op = "smgrsetowner"
                                     /\ last.owner = owner
                                     /\ last.reln = reln
                                     /\ last.was_owner = NULL]
    /\ UNCHANGED <<InRecovery, smgr_hook, file_nblocks>>

Call_smgrclose(reln) ==
    /\ reln \in InUse(Mem)
    /\ LET m == smgrclose(Mem, reln)
       IN  /\ Store(m)
           /\ last' = [Call("smgrclose") EXCEPT
                         !.reln = reln, !.rnode = Mem.entry[reln].smgr_rnode,
                         !.was_owner = Mem.entry[reln].smgr_owner,
                         !.err = m.err, !.calls = m.calls]
    /\ UNCHANGED <<InRecovery, smgr_hook, file_nblocks>>

Call_smgrclosenode(rnode) ==
    /\ LET m == smgrclosenode(Mem, rnode)
       IN  /\ Store(m)
           /\ last' = [Call("smgrclosenode") EXCEPT
                         !.rnode = rnode, !.reln = HashFind(Mem, rnode),
                         !.found = HashFind(Mem, rnode) # NULL,
                         !.was_owner = IF HashFind(Mem, rnode) # NULL
                                       THEN Mem.entry[HashFind(Mem, rnode)].smgr_owner
                                       ELSE NULL,
                         !.follows = /\ last.op = "smgrclosenode"
                                     /\ last.rnode = rnode
                                     /\ last.found,
                         !.err = m.err, !.calls = m.calls]
    /\ UNCHANGED <<InRecovery, smgr_hook, file_nblocks>>

Call_smgrrelease(reln) ==
    /\ reln \in InUse(Mem)
    /\ LET m == smgrrelease(Mem, reln)
       IN  /\ Store(m)
           /\ last' = [Call("smgrrelease") EXCEPT !.reln = reln, !.calls = m.calls]
    /\ UNCHANGED <<InRecovery, smgr_hook, file_nblocks>>

Call_smgrreleaseall ==
    /\ LET m == smgrreleaseall(Mem)
       IN  /\ Store(m)
           /\ last' = [Call("smgrreleaseall") EXCEPT !.calls = m.calls]
    /\ UNCHANGED <<InRecovery, smgr_hook, file_nblocks>>

Call_ProcessBarrierSmgrRelease ==
    /\ LET r == ProcessBarrierSmgrRelease(Mem)
           known == {h \in InUse(Mem) :
                        Mem.entry[h].smgr_cached_nblocks[MAIN_FORKNUM] # InvalidBlockNumber}
       IN  /\ Store(r.m)
           /\ last' = [Call("ProcessBarrierSmgrRelease") EXCEPT
                         !.ret = r.ret, !.calls = r.m.calls,
                         !.was_cached =
                             IF known = {} THEN InvalidBlockNumber
                             ELSE Mem.entry[CHOOSE h \in known : \A g \in known : h <= g]
                                     .smgr_cached_nblocks[MAIN_FORKNUM]]
    /\ UNCHANGED <<InRecovery, smgr_hook, file_nblocks>>

Call_smgrcloseall ==
    /\ LET m == smgrcloseall(Mem)
       IN  /\ Store(m)
           /\ last' = [Call("smgrcloseall") EXCEPT !.err = m.err, !.calls = m.calls]
    /\ UNCHANGED <<InRecovery, smgr_hook, file_nblocks>>

Call_AtEOXact_SMgr ==
    /\ LET m == AtEOXact_SMgr(Mem)
       IN  /\ Store(m)
           /\ last' = [Call("AtEOXact_SMgr") EXCEPT
                         !.err = m.err, !.calls = m.calls, !.ret = Len(unowned_relns)]
    /\ UNCHANGED <<InRecovery, smgr_hook, file_nblocks>>

Call_smgrextend(reln, forknum, blocknum, ok) ==
    /\ reln \in InUse(Mem)
    /\ LET m == smgrextend(Mem, reln, forknum, blocknum, ok)
       IN  /\ Store(m)
           /\ last' = [Call("smgrextend") EXCEPT
                         !.reln = reln, !.forknum = forknum, !.blocknum = blocknum,
                         !.was_cached = Mem.entry[reln].smgr_cached_nblocks[forknum],
                         !.err = m.err, !.calls = m.calls]
    /\ UNCHANGED <<InRecovery, smgr_hook, file_nblocks>>

Call_smgrnblocks(reln, forknum, answer) ==
    /\ reln \in InUse(Mem)
    /\ LET r == smgrnblocks(Mem, InRecovery, reln, forknum, answer)
       IN  /\ Store(r.m)
           /\ last' = [Call("smgrnblocks") EXCEPT
                         !.reln = reln, !.forknum = forknum, !.ret = r.ret,
                         !.was_cached = Mem.entry[reln].smgr_cached_nblocks[forknum],
                         !.follows = /\ last.op = "smgrtruncate"
                                     /\ ~last.err
                                     /\ last.reln = reln
                                     /\ last.forks = <<forknum>>,
                         !.calls = r.m.calls]
    /\ UNCHANGED <<InRecovery, smgr_hook, file_nblocks>>

Call_smgrtruncate(reln, forknum, nblocks, nok) ==
    /\ reln \in InUse(Mem)
    /\ LET m == smgrtruncate(Mem, reln, forknum, nblocks, nok)
       IN  /\ Store(m)
           /\ last' = [Call("smgrtruncate") EXCEPT
                         !.reln = reln, !.forks = forknum, !.counts = nblocks,
                         !.were_cached = [i \in 1..Len(forknum) |->
                                            Mem.entry[reln].smgr_cached_nblocks[forknum[i]]],
                         !.err = m.err, !.calls = m.calls]
    /\ UNCHANGED <<InRecovery, smgr_hook, file_nblocks>>

Call_smgropen_raising(rnode, relpersistence, fault, junk) ==
    /\ HashFind(Mem, rnode) # NULL \/ HashAlloc(Mem) # NULL
    /\ fault = "smgr" => smgr_hook # NULL
    /\ fault = "smgr" \/ junk = smgr_md
    /\ HashFind(Mem, rnode) # NULL => fault = "none"
    /\ LET r == smgropen_raising(Mem, smgr_hook, rnode, relpersistence, fault, junk)
       IN  /\ Store(r.m)
           /\ last' = [Call("smgropen") EXCEPT
                         !.rnode = rnode, !.arg = relpersistence, !.ret = r.ret,
                         !.reln = HashFind(Mem, rnode),
                         !.found = HashFind(Mem, rnode) # NULL,
                         !.err = r.m.err, !.calls = r.m.calls]
    /\ UNCHANGED <<InRecovery, smgr_hook, file_nblocks>>

Call_smgrclose_raising(reln, nclosed, present) ==
    /\ reln \in InUse(Mem)
    /\ nclosed <= MAX_FORKNUM => present
    /\ LET m == smgrclose_raising(Mem, reln, nclosed, present)
       IN  /\ Store(m)
           /\ last' = [Call("smgrclose") EXCEPT
                         !.reln = reln, !.rnode = Mem.entry[reln].smgr_rnode,
                         !.was_owner = Mem.entry[reln].smgr_owner,
                         !.err = m.err, !.calls = m.calls]
    /\ UNCHANGED <<InRecovery, smgr_hook, file_nblocks>>

\* a plugin installs a hook, or removes the one installed
Set_smgr_hook(hook) ==
    /\ smgr_hook # hook
    /\ smgr_hook' = hook
    /\ last' = [Call("smgr_hook") EXCEPT !.arg = hook]
    /\ UNCHANGED <<SMgrRelationHash, unowned_relns, owners, InRecovery, file_nblocks>>

\* the recovery subsystem enters or leaves recovery
SetInRecovery(b) ==
    /\ InRecovery # b
    /\ InRecovery' = b
    /\ last' = Call("InRecovery")
    /\ UNCHANGED <<SMgrRelationHash, unowned_relns, owners, smgr_hook, file_nblocks>>




(***************************************************************************)
(* Spec: the registry and the owner protocol.                              *)
(***************************************************************************)
Next ==
    \/ \E rnode \in Rels : Call_smgropen(rnode, 0)
    \/ \E owner \in Slots, reln \in Handles : Call_smgrsetowner(owner, reln)
    \/ \E owner \in Slots, reln \in Handles : Call_smgrclearowner(owner, reln)
    \/ \E reln \in Handles : Call_smgrclose(reln)
    \/ \E rnode \in Rels : Call_smgrclosenode(rnode)
    \/ \E reln \in Handles : Call_smgrrelease(reln)
    \/ Call_smgrreleaseall
    \/ Call_smgrcloseall
    \/ Call_AtEOXact_SMgr

Spec == Init /\ [][Next]_vars


(***************************************************************************)
(* SpecCache: the registry with cached sizes, which smgrnblocks fills in.  *)
(***************************************************************************)
NextCache ==
    \/ \E rnode \in Rels : Call_smgropen(rnode, 0)
    \/ \E owner \in CacheSlots, reln \in Handles : Call_smgrsetowner(owner, reln)
    \/ \E owner \in CacheSlots, reln \in Handles : Call_smgrclearowner(owner, reln)
    \/ \E reln \in Handles : Call_smgrclose(reln)
    \/ \E reln \in Handles : Call_smgrnblocks(reln, MAIN_FORKNUM, MaxBlock)
    \/ Call_AtEOXact_SMgr

SpecCache == Init /\ [][NextCache]_vars

(***************************************************************************)
(* SpecClass: smgropen called with every relpersistence.                   *)
(***************************************************************************)
NextClass ==
    \/ \E rnode \in ClassRels, rp \in RelPersistence : Call_smgropen(rnode, rp)
    \/ \E owner \in Slots, reln \in Handles : Call_smgrsetowner(owner, reln)
    \/ \E owner \in Slots, reln \in Handles : Call_smgrclearowner(owner, reln)
    \/ \E reln \in Handles : Call_smgrclose(reln)
    \/ \E reln \in Handles : Call_smgrnblocks(reln, MAIN_FORKNUM, MaxBlock)

SpecClass == Init /\ [][NextClass]_vars

(***************************************************************************)
(* SpecBlocks: the block-level calls on one open relation.                 *)
(***************************************************************************)
InitBlocks ==
    LET m == smgropen(Mem0, NULL, CHOOSE r \in Rels : \A q \in Rels : r <= q, 0).m
    IN  /\ SMgrRelationHash = [created |-> m.created, entry |-> m.entry]
        /\ unowned_relns = m.unowned
        /\ owners = m.owners
        /\ InRecovery = FALSE
        /\ smgr_hook = NULL
        /\ file_nblocks = Files0
        /\ last = Call("none")

NextBlocks ==
    \/ \E reln \in Handles, f \in InputForks, b \in BlockNumbers, ok \in BOOLEAN :
          Call_smgrextend(reln, f, b, ok)
    \/ \E reln \in Handles, f \in InputForks, b \in BlockNumbers \ {InvalidBlockNumber} :
          Call_smgrnblocks(reln, f, b)
    \/ \E reln \in Handles, f \in InputForks, b \in 0..MaxBlock, ok \in BOOLEAN :
          Call_smgrtruncate(reln, <<f>>, <<b>>, IF ok THEN 1 ELSE 0)
    \/ \E reln \in Handles, f1, f2 \in InputForks, b \in 0..MaxBlock, nok \in 0..2 :
          f1 < f2 /\ Call_smgrtruncate(reln, <<f1, f2>>, <<b, 0>>, nok)
    \/ \E reln \in Handles : Call_smgrrelease(reln)
    \/ \E b \in BOOLEAN : SetInRecovery(b)

SpecBlocks == InitBlocks /\ [][NextBlocks]_vars

(***************************************************************************)
(* smgrdosyncall and smgrdounlinkall.  rels is the array of objects.       *)
(***************************************************************************)
\* the arrays the callers pass: objects of the table, none twice
RelLists(m) ==
    {rels \in UNION {[1..n -> Handles] : n \in 0..NumRels} :
        /\ \A i \in 1..Len(rels) : rels[i] \in InUse(m)
        /\ \A i, j \in 1..Len(rels) : rels[i] = rels[j] => i = j}

\* what smgr_exists can answer: the set of <<object, fork>> it says exist
ExistPatterns ==
    {{}, Handles \X Forks} \cup {{<<h, MAIN_FORKNUM>>} : h \in Handles}

\* rnodes[]: the keys of the objects of rels
RnodesOf(m, rels) == [i \in 1..Len(rels) |-> m.entry[rels[i]].smgr_rnode]

\* one call for each fork of each rnode of the array, in the order of the nested loops
ForEachFork(routine, rnodes, value) ==
    [k \in 1..(Len(rnodes) * (MAX_FORKNUM + 1)) |->
        <<routine, rnodes[((k - 1) \div (MAX_FORKNUM + 1)) + 1],
          (k - 1) % (MAX_FORKNUM + 1), value>>]

\* the loop of smgrdosyncall(), from its round k on
RECURSIVE SyncLoop(_, _, _, _)
SyncLoop(m, rels, exists, k) ==
    IF k > Len(rels) * (MAX_FORKNUM + 1) THEN m
    ELSE LET reln == rels[((k - 1) \div (MAX_FORKNUM + 1)) + 1]
             forknum == (k - 1) % (MAX_FORKNUM + 1)
             rnode == m.entry[reln].smgr_rnode
             e == <<reln, forknum>> \in exists
             m1 == [m EXCEPT !.calls = Append(@, <<"smgr_exists", rnode, forknum,
                                                   IF e THEN 1 ELSE 0>>)]
             m2 == IF e
                   THEN [m1 EXCEPT !.calls = Append(@, <<"smgr_immedsync", rnode,
                                                         forknum, 0>>)]
                   ELSE m1
         IN  SyncLoop(m2, rels, exists, k + 1)

\* smgrdosyncall() that syncs every fork
smgrdosyncall_every(m, rels, exists) ==
    IF Len(rels) = 0 THEN m
    ELSE [m EXCEPT !.calls = (@ \o <<<<"FlushRelationsAllBuffers", RnodesOf(m, rels),
                                       0, Len(rels)>>>>)
                               \o ForEachFork("smgr_immedsync", RnodesOf(m, rels), 0)]

\* smgrdosyncall(); exists: the <<object, fork>> for which smgr_exists answers true
smgrdosyncall(m, rels, exists) ==
    IF Len(rels) = 0 THEN m
    ELSE SyncLoop([m EXCEPT !.calls = Append(@, <<"FlushRelationsAllBuffers",
                                                  RnodesOf(m, rels), 0, Len(rels)>>)],
                  rels, exists, 1)

\* the first loop of smgrdounlinkall(): the forks of each object are closed
RECURSIVE UnlinkCloseLoop(_, _)
UnlinkCloseLoop(m, rels) ==
    IF rels = <<>> THEN m ELSE UnlinkCloseLoop(CloseForks(m, Head(rels)), Tail(rels))

\* smgrdounlinkall() with smgrclose(rels[i]) in place of the smgr_close of each fork
smgrdounlinkall_closes(m, rels, isRedo) ==
    IF Len(rels) = 0 THEN m
    ELSE LET rnodes == RnodesOf(m, rels)
             m1 == [m EXCEPT !.calls = Append(@, <<"DropRelFileNodesAllBuffers", rnodes,
                                                   0, Len(rels)>>)]
             m2 == CloseEach(m1, rels)
         IN  [m2 EXCEPT !.calls =
                 (@ \o [i \in 1..Len(rels) |-> <<"CacheInvalidateSmgr", rnodes[i], 0, 0>>])
                    \o ForEachFork("smgr_unlink", rnodes, IF isRedo THEN 1 ELSE 0)]

\* smgrdounlinkall() that sends the invalidations after the files are unlinked
smgrdounlinkall_unlinks_first(m, rels, isRedo) ==
    IF Len(rels) = 0 THEN m
    ELSE LET rnodes == RnodesOf(m, rels)
             m1 == [m EXCEPT !.calls = Append(@, <<"DropRelFileNodesAllBuffers", rnodes,
                                                   0, Len(rels)>>)]
             m2 == UnlinkCloseLoop(m1, rels)
         IN  [m2 EXCEPT !.calls =
                 (@ \o ForEachFork("smgr_unlink", rnodes, IF isRedo THEN 1 ELSE 0))
                    \o [i \in 1..Len(rels) |-> <<"CacheInvalidateSmgr", rnodes[i], 0, 0>>]]

\* smgrdounlinkall()
smgrdounlinkall(m, rels, isRedo) ==
    IF Len(rels) = 0 THEN m
    ELSE LET rnodes == RnodesOf(m, rels)
             m1 == [m EXCEPT !.calls = Append(@, <<"DropRelFileNodesAllBuffers", rnodes,
                                                   0, Len(rels)>>)]
             m2 == UnlinkCloseLoop(m1, rels)
         IN  [m2 EXCEPT !.calls =
                 (@ \o [i \in 1..Len(rels) |-> <<"CacheInvalidateSmgr", rnodes[i], 0, 0>>])
                    \o ForEachFork("smgr_unlink", rnodes, IF isRedo THEN 1 ELSE 0)]

Call_smgrdosyncall(rels, exists) ==
    /\ rels \in RelLists(Mem)
    /\ LET m == smgrdosyncall(Mem, rels, exists)
       IN  /\ Store(m)
           /\ last' = [Call("smgrdosyncall") EXCEPT
                         !.rels = rels, !.rnodes = RnodesOf(Mem, rels),
                         !.exists = exists, !.calls = m.calls]
    /\ UNCHANGED <<InRecovery, smgr_hook, file_nblocks>>

Call_smgrdounlinkall(rels, isRedo) ==
    /\ rels \in RelLists(Mem)
    /\ LET m == smgrdounlinkall(Mem, rels, isRedo)
       IN  /\ Store(m)
           /\ last' = [Call("smgrdounlinkall") EXCEPT
                         !.rels = rels, !.rnodes = RnodesOf(Mem, rels),
                         !.arg = IF isRedo THEN 1 ELSE 0,
                         !.calls = m.calls]
    /\ UNCHANGED <<InRecovery, smgr_hook, file_nblocks>>

(***************************************************************************)
(* SpecFiles: the calls that take an array of objects.                     *)
(***************************************************************************)
NextFiles ==
    \/ \E rnode \in Rels : Call_smgropen(rnode, 0)
    \/ \E rnode \in Rels : Call_smgrclosenode(rnode)
    \/ \E rels \in RelLists(Mem), exists \in ExistPatterns : Call_smgrdosyncall(rels, exists)
    \/ \E rels \in RelLists(Mem), isRedo \in BOOLEAN : Call_smgrdounlinkall(rels, isRedo)

SpecFiles == Init /\ [][NextFiles]_vars

(***************************************************************************)
(* SpecFaults: smgropen and smgrclose with the raises of their             *)
(* collaborators.  An object of the table that has no owner and is not in  *)
(* unowned_relns has a list node that is in no list; dlist_delete of such  *)
(* a node is undefined, and the calls that would reach it are not          *)
(* followed.                                                               *)
(***************************************************************************)
Orphan(h) ==
    /\ h \in InUse(Mem)
    /\ Mem.entry[h].smgr_owner = NULL
    /\ \A i \in 1..Len(unowned_relns) : unowned_relns[i] # h

NextFaults ==
    \/ \E rnode \in Rels, fault \in OpenFaults, junk \in Tables :
          Call_smgropen_raising(rnode, 0, fault, junk)
    \/ \E owner \in CacheSlots, reln \in Handles :
          ~Orphan(reln) /\ Call_smgrsetowner(owner, reln)
    \/ \E reln \in Handles, nclosed \in 0..(MAX_FORKNUM + 1), present \in BOOLEAN :
          ~Orphan(reln) /\ Call_smgrclose_raising(reln, nclosed, present)
    \/ Call_AtEOXact_SMgr
    \/ \E hook \in {NULL} \cup Hooks : Set_smgr_hook(hook)

SpecFaults == Init /\ [][NextFaults]_vars

(***************************************************************************)
(* SpecRelease: the releases, on objects with owners and cached sizes.     *)
(***************************************************************************)
NextRelease ==
    \/ \E rnode \in Rels : Call_smgropen(rnode, 0)
    \/ \E owner \in CacheSlots, reln \in Handles : Call_smgrsetowner(owner, reln)
    \/ \E reln \in Handles : Call_smgrnblocks(reln, MAIN_FORKNUM, MaxBlock)
    \/ \E reln \in Handles : Call_smgrrelease(reln)
    \/ Call_smgrreleaseall
    \/ Call_ProcessBarrierSmgrRelease
    \/ Call_smgrcloseall

SpecRelease == Init /\ [][NextRelease]_vars

(***************************************************************************)
(* SpecHook: the registry while plugins install and remove smgr_hook.      *)
(***************************************************************************)
NextHook ==
    \/ \E rnode \in Rels : Call_smgropen(rnode, 0)
    \/ \E hook \in {NULL} \cup Hooks : Set_smgr_hook(hook)
    \/ \E owner \in CacheSlots, reln \in Handles : Call_smgrsetowner(owner, reln)
    \/ \E reln \in Handles : Call_smgrrelease(reln)
    \/ \E reln \in Handles : Call_smgrclose(reln)

SpecHook == Init /\ [][NextHook]_vars

(***************************************************************************)
(* A storage that keeps the number of blocks of every fork, behind the     *)
(* dispatch table: smgr_nblocks answers with it, smgr_extend of block b    *)
(* leaves at least b + 1 blocks, smgr_truncate to n leaves n.  A call can  *)
(* raise; smgr_extend raises for a block the storage cannot hold and       *)
(* smgr_truncate for a size above the present one.                         *)
(***************************************************************************)
\* what a call of the storage does: return, raise having done nothing, or raise
\* having done its work
Faults == {"none", "raise", "raise_after"}

\* smgr_nblocks
mdnblocks(files, rnode, forknum) == files[rnode][forknum]

\* smgr_extend: [ok, files]
mdextend(files, rnode, forknum, blocknum, fault) ==
    IF blocknum = InvalidBlockNumber \/ blocknum > MaxBlock \/ fault = "raise"
    THEN [ok |-> FALSE, files |-> files]
    ELSE [ok |-> fault = "none",
          files |-> [files EXCEPT ![rnode][forknum] =
                        IF blocknum + 1 > @ THEN blocknum + 1 ELSE @]]

\* smgr_truncate: [ok, files]
mdtruncate(files, rnode, forknum, nblocks, fault) ==
    IF nblocks > files[rnode][forknum] \/ fault = "raise"
    THEN [ok |-> FALSE, files |-> files]
    ELSE [ok |-> fault = "none", files |-> [files EXCEPT ![rnode][forknum] = nblocks]]

\* the smgr_truncate calls of one smgrtruncate(), from round i on: [nok, files], nok
\* the rounds that returned
RECURSIVE TruncateRounds(_, _, _, _, _, _)
TruncateRounds(files, rnode, forknum, nblocks, faults, i) ==
    IF i > Len(forknum) THEN [nok |-> Len(forknum), files |-> files]
    ELSE LET r == mdtruncate(files, rnode, forknum[i], nblocks[i], faults[i])
         IN  IF r.ok
             THEN TruncateRounds(r.files, rnode, forknum, nblocks, faults, i + 1)
             ELSE [nok |-> i - 1, files |-> r.files]

Storage_smgrextend(reln, forknum, blocknum, fault) ==
    /\ reln \in InUse(Mem)
    /\ LET r == mdextend(file_nblocks, Mem.entry[reln].smgr_rnode, forknum, blocknum, fault)
           m == smgrextend(Mem, reln, forknum, blocknum, r.ok)
       IN  /\ Store(m)
           /\ file_nblocks' = r.files
           /\ last' = [Call("smgrextend") EXCEPT
                         !.reln = reln, !.forknum = forknum, !.err = m.err]
    /\ UNCHANGED <<InRecovery, smgr_hook>>

Storage_smgrnblocks(reln, forknum) ==
    /\ reln \in InUse(Mem)
    /\ LET r == smgrnblocks(Mem, InRecovery, reln, forknum,
                            mdnblocks(file_nblocks, Mem.entry[reln].smgr_rnode, forknum))
       IN  /\ Store(r.m)
           /\ last' = [Call("smgrnblocks") EXCEPT
                         !.reln = reln, !.forknum = forknum, !.ret = r.ret,
                         !.calls = r.m.calls]
    /\ UNCHANGED <<InRecovery, smgr_hook, file_nblocks>>

Storage_smgrtruncate(reln, forknum, nblocks, faults) ==
    /\ reln \in InUse(Mem)
    /\ LET r == TruncateRounds(file_nblocks, Mem.entry[reln].smgr_rnode,
                               forknum, nblocks, faults, 1)
           m == smgrtruncate(Mem, reln, forknum, nblocks, r.nok)
       IN  /\ Store(m)
           /\ file_nblocks' = r.files
           /\ last' = [Call("smgrtruncate") EXCEPT
                         !.reln = reln, !.forks = forknum, !.err = m.err]
    /\ UNCHANGED <<InRecovery, smgr_hook>>

(***************************************************************************)
(* SpecStorage: one relation, opened, extended, truncated, measured,       *)
(* released, closed and opened again by this backend alone.                *)
(***************************************************************************)
TheRel == CHOOSE r \in Rels : \A q \in Rels : r <= q

NextStorage ==
    \/ Call_smgropen(TheRel, 0)
    \/ \E reln \in Handles : Call_smgrclose(reln)
    \/ \E reln \in Handles : Call_smgrrelease(reln)
    \/ \E b \in BOOLEAN : SetInRecovery(b)
    \/ \E reln \in Handles, f \in InputForks, fault \in Faults,
          b \in (0..MaxBlock) \cup {InvalidBlockNumber} :
          Storage_smgrextend(reln, f, b, fault)
    \/ \E reln \in Handles, f \in InputForks : Storage_smgrnblocks(reln, f)
    \/ \E reln \in Handles, f \in InputForks, b \in 0..MaxBlock, fault \in Faults :
          Storage_smgrtruncate(reln, <<f>>, <<b>>, <<fault>>)
    \/ \E reln \in Handles, f1, f2 \in InputForks, b \in 0..MaxBlock, g1, g2 \in Faults :
          f1 < f2 /\ Storage_smgrtruncate(reln, <<f1, f2>>, <<b, 0>>, <<g1, g2>>)

SpecStorage == Init /\ [][NextStorage]_vars

(***************************************************************************)
(* SpecUnlink: objects with owners and known sizes are unlinked, and       *)
(* closed afterwards by the invalidation or by the end of the transaction. *)
(***************************************************************************)
TheSlot == CHOOSE s \in CacheSlots : \A q \in CacheSlots : s <= q

NextUnlink ==
    \/ \E rnode \in Rels : Call_smgropen(rnode, 0)
    \/ \E reln \in Handles : Call_smgrsetowner(TheSlot, reln)
    \/ \E reln \in Handles : Call_smgrnblocks(reln, MAIN_FORKNUM, MaxBlock)
    \/ \E rels \in RelLists(Mem) : Call_smgrdounlinkall(rels, TRUE)
    \/ \E rnode \in Rels : Call_smgrclosenode(rnode)
    \/ Call_AtEOXact_SMgr

SpecUnlink == Init /\ [][NextUnlink]_vars

(***************************************************************************)
(* The owner protocol (Spec).                                              *)
(***************************************************************************)
Entry(h) == SMgrRelationHash.entry[h]
EntryNext(h) == SMgrRelationHash'.entry[h]
Live == {h \in Handles : Entry(h).smgr_rnode # NULL}
Unowned == {unowned_relns[i] : i \in 1..Len(unowned_relns)}
Occurrences(list, h) == Cardinality({i \in 1..Len(list) : list[i] = h})

\* C1: every handle of the table either has no owner and is in the unowned list, or
\* has an owner that points back at it and is not in the unowned list.
C1_ExactlyOnePath ==
    \A h \in Live :
        \/ /\ Entry(h).smgr_owner = NULL
           /\ h \in Unowned
        \/ /\ Entry(h).smgr_owner # NULL
           /\ owners[Entry(h).smgr_owner] = h
           /\ h \notin Unowned

\* C2: smgrsetowner(S, B) while S holds another handle A whose owner is S leaves A
\* without an owner, S holding B and B owned by S.
C2_DetachesOccupant ==
    [][\A A \in Live :
          (/\ last'.op = "smgrsetowner"
           /\ owners[last'.owner] = A
           /\ A # last'.reln
           /\ Entry(A).smgr_owner = last'.owner)
          => /\ EntryNext(A).smgr_owner = NULL
             /\ owners'[last'.owner] = last'.reln
             /\ EntryNext(last'.reln).smgr_owner = last'.owner]_vars

\* C4: smgrsetowner(S2, A) leaves the former owner S1 of A holding nothing, S2 holding
\* A, A owned by S2 and out of the unowned list; no handle is held by two owners.
AtMostOneOwner ==
    \A s1, s2 \in Slots : (owners[s1] # NULL /\ owners[s1] = owners[s2]) => s1 = s2

C4_Transfer ==
    [][/\ last'.op = "smgrsetowner" =>
            LET S2 == last'.owner
                A == last'.reln
                S1 == Entry(A).smgr_owner
            IN  /\ (S1 # NULL /\ S1 # S2) => owners'[S1] = NULL
                /\ owners'[S2] = A
                /\ EntryNext(A).smgr_owner = S2
                /\ A \notin Unowned'
       /\ AtMostOneOwner']_vars

C4_Witness ==
    /\ last.op = "smgrsetowner"
    /\ last.was_owner # NULL
    /\ last.was_owner # last.owner
    /\ owners[last.was_owner] = NULL
    /\ owners[last.owner] = last.reln

\* C5: smgrclearowner(S, h) right after smgrsetowner(S, h) on an unowned h leaves h in
\* the unowned list, without owner, and S holding nothing; and no handle is ever both
\* in the unowned list and held by an owner.
C5_SetThenClear ==
    /\ \A h \in Unowned : \A s \in Slots : owners[s] # h
    /\ (last.op = "smgrclearowner" /\ last.follows) =>
           /\ Occurrences(unowned_relns, last.reln) = 1
           /\ Entry(last.reln).smgr_owner = NULL
           /\ owners[last.owner] = NULL

C5_Witness ==
    /\ last.op = "smgrclearowner"
    /\ last.follows
    /\ last.was_owner = last.owner
    /\ last.reln \in Unowned

\* C6: smgrclearowner(S, h) changes nothing when h's owner is not S.
C6_ClearNotOwner ==
    [][(/\ last'.op = "smgrclearowner"
        /\ Entry(last'.reln).smgr_owner # last'.owner)
       => UNCHANGED <<SMgrRelationHash, unowned_relns, owners>>]_vars

C6_Witness ==
    /\ last.op = "smgrclearowner"
    /\ last.was_owner = NULL
    /\ last.was_held # NULL
    /\ Occurrences(unowned_relns, last.reln) = 1

(***************************************************************************)
(* The table and the cached sizes (SpecCache).                             *)
(***************************************************************************)
Holder(rnode) == {h \in Handles : Entry(h).smgr_rnode = rnode}
HolderNext(rnode) == {h \in Handles : EntryNext(h).smgr_rnode = rnode}
LiveNext == {h \in Handles : EntryNext(h).smgr_rnode # NULL}
AllUnknown(e) == \A f \in Forks : e.smgr_cached_nblocks[f] = InvalidBlockNumber

\* C3: the table holds at most one object per key; smgropen of a key that is in the
\* table returns that object and changes nothing of it but, possibly, its
\* relpersistence; smgropen of a key that is not adds exactly one object, unowned and
\* with every cached size unknown.
C3_OneEntryPerKey ==
    [][/\ \A k \in Rels : Cardinality(HolderNext(k)) <= 1
       /\ (last'.op = "smgropen" /\ ~last'.err) =>
            LET k == last'.rnode
                r == last'.ret
            IN  IF Holder(k) # {}
                THEN /\ Holder(k) = {r}
                     /\ \A h \in Handles :
                           EntryNext(h) = [Entry(h) EXCEPT !.smgr_relpersistence =
                                                EntryNext(h).smgr_relpersistence]
                     /\ UNCHANGED <<unowned_relns, owners>>
                ELSE /\ r \notin Live
                     /\ LiveNext = Live \cup {r}
                     /\ EntryNext(r).smgr_rnode = k
                     /\ EntryNext(r).smgr_owner = NULL
                     /\ AllUnknown(EntryNext(r))
                     /\ unowned_relns' = Append(unowned_relns, r)
                     /\ \A h \in Handles \ {r} : EntryNext(h) = Entry(h)
                     /\ UNCHANGED owners]_vars

C3_Witness ==
    /\ last.op = "smgropen"
    /\ last.found
    /\ last.ret # NULL
    /\ Entry(last.ret).smgr_owner # NULL
    /\ ~AllUnknown(Entry(last.ret))
    /\ Cardinality(Live) > 1

\* C7: AtEOXact_SMgr leaves the unowned list empty, every object that had an owner as
\* it was and still held by the same owners, and no object for the keys of the objects
\* that were unowned; an smgropen of a key that is not in the table gives an unowned
\* object whose cached sizes are all unknown.
C7_SweepClosesUnowned ==
    [][/\ last'.op = "AtEOXact_SMgr" =>
            /\ unowned_relns' = <<>>
            /\ owners' = owners
            /\ \A h \in Live :
                  /\ Entry(h).smgr_owner # NULL => EntryNext(h) = Entry(h)
                  /\ h \in Unowned => HolderNext(Entry(h).smgr_rnode) = {}
       /\ (last'.op = "smgropen" /\ Holder(last'.rnode) = {}) =>
            /\ AllUnknown(EntryNext(last'.ret))
            /\ EntryNext(last'.ret).smgr_owner = NULL
            /\ last'.ret \in Unowned']_vars

C7_Witness ==
    /\ last.op = "AtEOXact_SMgr"
    /\ last.ret > 0
    /\ \E h \in Live : Entry(h).smgr_owner # NULL /\ ~AllUnknown(Entry(h))

(***************************************************************************)
(* relpersistence (SpecClass).                                             *)
(***************************************************************************)
\* C8: smgropen of a key in the table sets an unknown relpersistence to the caller's,
\* leaves a known one alone when the caller's is unknown or the same, and otherwise
\* raises and leaves the object, the owners and the unowned list as they were; a
\* known relpersistence stays as long as the object is in the table.
C8_Relpersistence ==
    [][/\ \A h \in Handles :
            (/\ last'.op = "smgropen"
             /\ Entry(h).smgr_rnode = last'.rnode)
            => LET was == Entry(h).smgr_relpersistence
                   hint == last'.arg
               IN  IF was = 0
                   THEN /\ ~last'.err
                        /\ EntryNext(h) = [Entry(h) EXCEPT !.smgr_relpersistence = hint]
                   ELSE IF hint = 0 \/ hint = was
                        THEN ~last'.err /\ EntryNext(h) = Entry(h)
                        ELSE /\ last'.err
                             /\ UNCHANGED <<SMgrRelationHash, unowned_relns, owners>>
       /\ \A h \in Live :
            (/\ EntryNext(h).smgr_rnode = Entry(h).smgr_rnode
             /\ Entry(h).smgr_relpersistence # 0)
            => EntryNext(h).smgr_relpersistence = Entry(h).smgr_relpersistence]_vars

C8_Witness ==
    /\ last.op = "smgropen"
    /\ last.err
    /\ last.arg = 117
    /\ \E h \in Live :
          /\ Entry(h).smgr_rnode = last.rnode
          /\ Entry(h).smgr_relpersistence = 112
          /\ Entry(h).smgr_owner # NULL
          /\ ~AllUnknown(Entry(h))

(***************************************************************************)
(* The cached sizes (SpecBlocks).                                          *)
(***************************************************************************)
Cached(h, f) == Entry(h).smgr_cached_nblocks[f]
CachedNext(h, f) == EntryNext(h).smgr_cached_nblocks[f]

\* C9 as stated: for every block number N of 0..2^32-1, an smgrextend that returns
\* sets the fork's cached size to N+1 when it was N, and to unknown when it was
\* anything else, unknown included.
C9_EveryBlockNumber ==
    (last.op = "smgrextend" /\ ~last.err) =>
        IF last.was_cached # InvalidBlockNumber /\ last.was_cached = last.blocknum
        THEN Cached(last.reln, last.forknum) = BlockPlusOne(last.blocknum)
        ELSE Cached(last.reln, last.forknum) = InvalidBlockNumber

\* C9 amended: the same for every N of 0..2^32-2, the block numbers other than
\* InvalidBlockNumber; nothing else of the object changes.
C9_Extend ==
    [][(/\ last'.op = "smgrextend"
        /\ ~last'.err
        /\ last'.blocknum # InvalidBlockNumber)
       => LET h == last'.reln
              N == last'.blocknum
          IN  /\ Cached(h, last'.forknum) = N =>
                     CachedNext(h, last'.forknum) = N + 1
              /\ Cached(h, last'.forknum) # N =>
                     CachedNext(h, last'.forknum) = InvalidBlockNumber
              /\ \A f \in Forks \ {last'.forknum} : CachedNext(h, f) = Cached(h, f)]_vars

C9_Witness ==
    /\ last.op = "smgrextend"
    /\ ~last.err
    /\ last.was_cached = last.blocknum
    /\ Cached(last.reln, last.forknum) = last.blocknum + 1
    /\ last.blocknum >= 0
    /\ \E f \in Forks \ {last.forknum} : Cached(last.reln, f) # InvalidBlockNumber

\* C10: smgrnblocks returns the cached size and asks nobody when InRecovery is set and
\* the size is known; otherwise it calls smgr_nblocks once, returns its answer and
\* caches it.  After an smgrtruncate of one fork to n blocks that returned, it
\* returns n in recovery without a call.
C10_Nblocks ==
    [][/\ last'.op = "smgrnblocks" =>
            LET h == last'.reln
                f == last'.forknum
            IN  IF InRecovery /\ Cached(h, f) # InvalidBlockNumber
                THEN /\ last'.ret = Cached(h, f)
                     /\ last'.calls = <<>>
                     /\ UNCHANGED <<SMgrRelationHash, unowned_relns, owners>>
                ELSE /\ Len(last'.calls) = 1
                     /\ last'.calls[1][1] = "smgr_nblocks"
                     /\ last'.calls[1][3] = f
                     /\ last'.ret = last'.calls[1][4]
                     /\ CachedNext(h, f) = last'.calls[1][4]
       /\ (/\ last.op = "smgrtruncate"
           /\ ~last.err
           /\ Len(last.forks) = 1
           /\ last'.op = "smgrnblocks"
           /\ last'.reln = last.reln
           /\ last'.forknum = last.forks[1]
           /\ InRecovery)
          => /\ last'.ret = last.counts[1]
             /\ last'.calls = <<>>]_vars

C10_Witness ==
    /\ last.op = "smgrnblocks"
    /\ last.follows
    /\ InRecovery
    /\ last.forknum = MAIN_FORKNUM
    /\ last.ret = MaxBlock
    /\ last.calls = <<>>

(***************************************************************************)
(* The calls made to the collaborators (SpecFiles, SpecBlocks).            *)
(***************************************************************************)
\* the positions of the calls of a routine in a list of calls
Idx(calls, routine) == {i \in 1..Len(calls) : calls[i][1] = routine}

\* C11: smgrdounlinkall of a non-empty array drops the buffers of all its relations in
\* one call, then closes every fork of every object, then sends the invalidation of
\* every rnode, and only then unlinks, every fork of every rnode of the array.
C11_UnlinkOrder ==
    (last.op = "smgrdounlinkall" /\ last.rels # <<>>) =>
        LET c == last.calls
            drop == Idx(c, "DropRelFileNodesAllBuffers")
            close == Idx(c, "smgr_close")
            inval == Idx(c, "CacheInvalidateSmgr")
            unlink == Idx(c, "smgr_unlink")
            n == Len(last.rnodes)
        IN  /\ drop = {1}
            /\ c[1][2] = last.rnodes
            /\ drop \cup close \cup inval \cup unlink = 1..Len(c)
            /\ \A i \in drop, j \in close : i < j
            /\ \A i \in close, j \in inval : i < j
            /\ \A i \in inval, j \in unlink : i < j
            /\ \A k \in 1..n, f \in Forks :
                  \E i \in close : c[i][2] = last.rnodes[k] /\ c[i][3] = f
            /\ \A k \in 1..n : \E i \in inval : c[i][2] = last.rnodes[k]
            /\ \A k \in 1..n, f \in Forks :
                  \E i \in unlink : /\ c[i][2] = last.rnodes[k]
                                    /\ c[i][3] = f
                                    /\ c[i][4] = last.arg

C11_Witness ==
    /\ last.op = "smgrdounlinkall"
    /\ Len(last.rels) >= 2
    /\ last.arg = 1
    /\ Cardinality(Idx(last.calls, "smgr_unlink")) = Len(last.rels) * (MAX_FORKNUM + 1)
    /\ Cardinality(Idx(last.calls, "CacheInvalidateSmgr")) = Len(last.rels)

\* C14: smgrdosyncall of a non-empty array flushes the buffers of all its relations in
\* one call before any smgr_immedsync; smgr_immedsync is called for a fork of an object
\* of the array exactly when smgr_exists answered true for it, and right after that
\* answer; with an empty array nothing is called.
C14_SyncAll ==
    (last.op = "smgrdosyncall") =>
        LET c == last.calls
            flush == Idx(c, "FlushRelationsAllBuffers")
            exists == Idx(c, "smgr_exists")
            sync == Idx(c, "smgr_immedsync")
            n == Len(last.rnodes)
        IN  IF last.rels = <<>>
            THEN c = <<>>
            ELSE /\ flush = {1}
                 /\ c[1][2] = last.rnodes
                 /\ flush \cup exists \cup sync = 1..Len(c)
                 /\ \A k \in 1..n, f \in Forks :
                       (\E i \in sync : c[i][2] = last.rnodes[k] /\ c[i][3] = f)
                           <=> <<last.rels[k], f>> \in last.exists
                 /\ \A i \in sync :
                       /\ \E k \in 1..n : c[i][2] = last.rnodes[k]
                       /\ (i - 1) \in exists
                       /\ c[i - 1][2] = c[i][2]
                       /\ c[i - 1][3] = c[i][3]
                       /\ c[i - 1][4] = 1
                 /\ Cardinality(sync) =
                       Cardinality({p \in last.exists :
                                       \E k \in 1..n : last.rels[k] = p[1]})

C14_Witness ==
    /\ last.op = "smgrdosyncall"
    /\ Len(last.rels) >= 2
    /\ Cardinality(last.exists) = 1
    /\ Cardinality(Idx(last.calls, "smgr_immedsync")) = 1
    /\ Cardinality(Idx(last.calls, "smgr_exists")) = Len(last.rels) * (MAX_FORKNUM + 1)

\* C12: smgrtruncate first has the buffers beyond the new sizes dropped, then sends the
\* invalidation of the relation, once, and only then calls smgr_truncate; the
\* invalidation is sent once also when an smgr_truncate raises.
C12_TruncateOrder ==
    (last.op = "smgrtruncate") =>
        LET c == last.calls
            rnode == Entry(last.reln).smgr_rnode
        IN  /\ Len(c) >= 2
            /\ c[1] = <<"DropRelFileNodeBuffers", rnode, last.forks, last.counts>>
            /\ c[2] = <<"CacheInvalidateSmgr", rnode, 0, 0>>
            /\ Idx(c, "DropRelFileNodeBuffers") = {1}
            /\ Idx(c, "CacheInvalidateSmgr") = {2}
            /\ Idx(c, "smgr_truncate") = 3..Len(c)
            /\ \A i \in 3..Len(c) : /\ c[i][2] = rnode
                                    /\ c[i][3] = last.forks[i - 2]
                                    /\ c[i][4] = last.counts[i - 2]
            /\ ~last.err => Len(c) = 2 + Len(last.forks)

C12_Witness ==
    /\ last.op = "smgrtruncate"
    /\ last.err
    /\ Len(last.forks) = 2
    /\ Cardinality(Idx(last.calls, "smgr_truncate")) = 2
    /\ Cardinality(Idx(last.calls, "CacheInvalidateSmgr")) = 1

\* C13: when the smgr_truncate of the i-th fork raises, smgrtruncate leaves that fork's
\* cached size unknown, the cached size of each fork before it at its new size and
\* that of each fork after it as it was; when none raises every fork's cached size
\* is its new size.  A fork whose smgr_truncate was called never keeps a cached size
\* other than unknown or the new one.  The forks of the array are distinct.
C13_TruncateFailure ==
    [][(last'.op = "smgrtruncate") =>
          LET h == last'.reln
              forks == last'.forks
              counts == last'.counts
              i == Cardinality(Idx(last'.calls, "smgr_truncate"))
          IN  /\ IF last'.err
                 THEN /\ i \in 1..Len(forks)
                      /\ CachedNext(h, forks[i]) = InvalidBlockNumber
                      /\ \A j \in 1..(i - 1) : CachedNext(h, forks[j]) = counts[j]
                      /\ \A j \in (i + 1)..Len(forks) :
                            CachedNext(h, forks[j]) = Cached(h, forks[j])
                 ELSE /\ i = Len(forks)
                      /\ \A j \in 1..Len(forks) : CachedNext(h, forks[j]) = counts[j]
              /\ \A j \in 1..i :
                    CachedNext(h, forks[j]) \in {InvalidBlockNumber, counts[j]}
              /\ \A f \in Forks :
                    (\A j \in 1..Len(forks) : forks[j] # f)
                        => CachedNext(h, f) = Cached(h, f)]_vars

C13_Witness ==
    /\ last.op = "smgrtruncate"
    /\ last.err
    /\ Len(last.forks) = 2
    /\ Cardinality(Idx(last.calls, "smgr_truncate")) = 2
    /\ last.counts[1] # last.counts[2]
    /\ last.were_cached[1] \notin {InvalidBlockNumber, last.counts[1]}
    /\ last.were_cached[2] \notin {InvalidBlockNumber, last.counts[2]}
    /\ Cached(last.reln, last.forks[1]) = last.counts[1]
    /\ Cached(last.reln, last.forks[2]) = InvalidBlockNumber

(***************************************************************************)
(* Raises in smgrclose and smgropen (SpecFaults).                          *)
(***************************************************************************)
\* C15: smgrclose, returning or raising, either leaves the table, the unowned list and
\* the owners as they were, or leaves the object out of the table and of the unowned
\* list and the owner it had holding nothing.
C15_CloseAllOrNothing ==
    [][(last'.op = "smgrclose") =>
          LET h == last'.reln
              owner == Entry(h).smgr_owner
          IN  \/ UNCHANGED <<SMgrRelationHash, unowned_relns, owners>>
              \/ /\ h \notin LiveNext
                 /\ h \notin Unowned'
                 /\ owner # NULL => owners'[owner] = NULL]_vars

\* C19: after an smgropen of a key that was not in the table has raised, the table
\* holds no object for that key that is neither in the unowned list nor held by an
\* owner.
C19_FailedCreation ==
    (last.op = "smgropen" /\ last.err /\ ~last.found) =>
        \A h \in Holder(last.rnode) :
            \/ h \in Unowned
            \/ \E s \in Slots : owners[s] = h

(***************************************************************************)
(* The releases (SpecRelease).                                             *)
(***************************************************************************)
\* C16: smgrrelease, smgrreleaseall and ProcessBarrierSmgrRelease leave the keys of the
\* table, the owner of every object, the owners and the unowned list as they were, and
\* leave every cached size of every released object unknown; an object that is not
\* released is unchanged; ProcessBarrierSmgrRelease returns true.  smgrreleaseall and
\* smgrcloseall change nothing and call nobody before the table exists.
C16_ReleaseKeepsHandles ==
    [][/\ (last'.op \in {"smgrrelease", "smgrreleaseall", "ProcessBarrierSmgrRelease"}) =>
            LET released == IF last'.op = "smgrrelease" THEN {last'.reln} ELSE Live
            IN  /\ SMgrRelationHash'.created = SMgrRelationHash.created
                /\ LiveNext = Live
                /\ UNCHANGED <<unowned_relns, owners>>
                /\ \A h \in released :
                      /\ AllUnknown(EntryNext(h))
                      /\ EntryNext(h) = [Entry(h) EXCEPT !.smgr_cached_nblocks =
                                            [f \in Forks |-> InvalidBlockNumber]]
                /\ \A h \in Handles \ released : EntryNext(h) = Entry(h)
                /\ last'.op = "ProcessBarrierSmgrRelease" => last'.ret = 1
       /\ (/\ last'.op \in {"smgrreleaseall", "smgrcloseall"}
           /\ ~SMgrRelationHash.created)
          => /\ UNCHANGED <<SMgrRelationHash, unowned_relns, owners>>
             /\ last'.calls = <<>>]_vars

C16_Witness ==
    /\ last.op = "ProcessBarrierSmgrRelease"
    /\ last.ret = 1
    /\ last.was_cached = MaxBlock
    /\ \E h \in Live : Entry(h).smgr_owner # NULL /\ AllUnknown(Entry(h))
    /\ \E h \in Live : h \in Unowned /\ AllUnknown(Entry(h))

(***************************************************************************)
(* smgrclosenode and the owners' pointers (Spec).                          *)
(***************************************************************************)
\* C17: smgrclosenode of a key that is not in the table, or before the table exists,
\* changes nothing, creates nothing and calls nobody; smgrclosenode of a key that is in
\* the table does what smgrclose of its object does; a second smgrclosenode of the same
\* key directly after the first changes nothing.
C17_CloseNodeAbsent ==
    [][/\ (last'.op = "smgrclosenode" /\ Holder(last'.rnode) = {}) =>
            /\ UNCHANGED <<SMgrRelationHash, unowned_relns, owners>>
            /\ last'.calls = <<>>
            /\ ~last'.err
       /\ (last'.op = "smgrclosenode" /\ Holder(last'.rnode) # {}) =>
            LET h == CHOOSE x \in Handles : x \in Holder(last'.rnode)
                m == smgrclose(Mem, h)
            IN  /\ SMgrRelationHash' = [created |-> m.created, entry |-> m.entry]
                /\ unowned_relns' = m.unowned
                /\ owners' = m.owners
                /\ last'.calls = m.calls
                /\ HolderNext(last'.rnode) = {}
                /\ h \notin Unowned'
                /\ Entry(h).smgr_owner # NULL => owners'[Entry(h).smgr_owner] = NULL
       /\ (/\ last.op = "smgrclosenode"
           /\ last'.op = "smgrclosenode"
           /\ last'.rnode = last.rnode)
          => /\ UNCHANGED <<SMgrRelationHash, unowned_relns, owners>>
             /\ last'.calls = <<>>]_vars

C17_Witness ==
    /\ last.op = "smgrclosenode"
    /\ last.follows
    /\ ~last.found
    /\ last.calls = <<>>
    /\ Holder(last.rnode) = {}
    /\ \E h \in Live : Entry(h).smgr_owner # NULL

\* C20: every owner that holds a pointer holds one to an object of the table whose
\* smgr_owner is that owner; and smgrclose or smgrclosenode of an object leaves alone
\* every owner that holds a pointer to another object.
C20_NoDanglingOwner ==
    [][/\ \A s \in Slots :
            owners'[s] # NULL =>
                /\ owners'[s] \in LiveNext
                /\ EntryNext(owners'[s]).smgr_owner = s
       /\ (last'.op \in {"smgrclose", "smgrclosenode"} /\ last'.reln # NULL) =>
            \A s \in Slots :
                (owners[s] # NULL /\ owners[s] # last'.reln) => owners'[s] = owners[s]]_vars

(***************************************************************************)
(* The dispatch table of an object (SpecHook).                             *)
(***************************************************************************)
\* C18: smgropen of a key that is not in the table binds the new object to the table
\* the installed hook answers with, or to smgr_md when no hook is installed; and no
\* step changes the table of an object that stays in the table, whatever happens to
\* smgr_hook.
C18_DispatchFixed ==
    [][/\ (last'.op = "smgropen" /\ ~last'.found /\ ~last'.err) =>
            EntryNext(last'.ret).smgr =
                IF smgr_hook # NULL THEN HookResult(smgr_hook, last'.rnode) ELSE smgr_md
       /\ \A h \in Live :
            EntryNext(h).smgr_rnode = Entry(h).smgr_rnode
                => EntryNext(h).smgr = Entry(h).smgr]_vars

C18_Witness ==
    /\ last.op = "smgropen"
    /\ last.found
    /\ smgr_hook # NULL
    /\ Entry(last.ret).smgr = smgr_other
    /\ HookResult(smgr_hook, last.rnode) = smgr_md
    /\ Entry(last.ret).smgr_owner # NULL
    /\ \E h \in Live : Entry(h).smgr = smgr_md

(***************************************************************************)
(* The cached sizes against the storage (SpecStorage).                     *)
(***************************************************************************)
\* C21: every cached size that is not unknown is the number of blocks the storage
\* holds for that fork, and smgrnblocks returns that number, from the cache or from
\* the storage.
C21_CacheCoherent ==
    /\ \A h \in Live, f \in Forks :
          Cached(h, f) # InvalidBlockNumber
              => Cached(h, f) = file_nblocks[Entry(h).smgr_rnode][f]
    /\ last.op = "smgrnblocks"
          => last.ret = file_nblocks[Entry(last.reln).smgr_rnode][last.forknum]

(***************************************************************************)
(* What smgrdounlinkall leaves of its objects (SpecUnlink).                *)
(***************************************************************************)
\* C22: smgrdounlinkall changes nothing of the table, the unowned list and the owners:
\* every object of its array is still in the table under its key, with the owner, the
\* place in the unowned list and the cached size of every fork it had.  The object is
\* gone after the smgrclosenode of its key, and after AtEOXact_SMgr when it has no
\* owner.
C22_UnlinkKeepsHandles ==
    [][/\ last'.op = "smgrdounlinkall" =>
            /\ UNCHANGED <<SMgrRelationHash, unowned_relns, owners>>
            /\ \A i \in 1..Len(last'.rels) :
                  LET h == last'.rels[i]
                  IN  /\ h \in LiveNext
                      /\ EntryNext(h).smgr_rnode = last'.rnodes[i]
                      /\ EntryNext(h).smgr_owner = Entry(h).smgr_owner
                      /\ \A f \in Forks : CachedNext(h, f) = Cached(h, f)
                      /\ Occurrences(unowned_relns', h) = Occurrences(unowned_relns, h)
       /\ (last.op = "smgrdounlinkall" /\ last'.op = "smgrclosenode")
             => \A i \in 1..Len(last.rels) :
                   last.rnodes[i] = last'.rnode <=> last.rels[i] \notin LiveNext
       /\ (last.op = "smgrdounlinkall" /\ last'.op = "AtEOXact_SMgr" /\ ~last'.err)
             => \A i \in 1..Len(last.rels) :
                   Entry(last.rels[i]).smgr_owner = NULL <=> last.rels[i] \notin LiveNext
      ]_vars

C22_Witness ==
    /\ last.op = "smgrdounlinkall"
    /\ Len(last.rels) >= 2
    /\ \A i \in 1..Len(last.rels) : Entry(last.rels[i]).smgr_rnode = last.rnodes[i]
    /\ \E i \in 1..Len(last.rels) :
          /\ Entry(last.rels[i]).smgr_owner # NULL
          /\ owners[Entry(last.rels[i]).smgr_owner] = last.rels[i]
          /\ Cached(last.rels[i], MAIN_FORKNUM) = MaxBlock
    /\ \E i \in 1..Len(last.rels) :
          /\ last.rels[i] \in Unowned
          /\ Cached(last.rels[i], MAIN_FORKNUM) = InvalidBlockNumber
    /\ Cardinality(Idx(last.calls, "smgr_unlink")) = Len(last.rels) * (MAX_FORKNUM + 1)

====
